---- MODULE Spec2Model ----
(***************************************************************************)
(* Model of the CG-Abheastian viewer: the Wavefront loader (Model, in      *)
(* model.cpp) and the OpenGL view (MainView, in mainview.cpp).             *)
(*                                                                         *)
(* Two specifications share the module.  Spec is the view: Qt calls        *)
(* initializeGL, resizeGL and paintGL, the main window calls setRotation   *)
(* from its dials and setScale from its scale slider and reset button, and *)
(* the destructor ends the view.  SpecLoad is one run of                   *)
(* the Model constructor over a mesh source that the file supplies line by *)
(* line.                                                                   *)
(*                                                                         *)
(* Numbers.  A QMatrix4x4 holding a model transformation is a 4x4 matrix   *)
(* of integers in units of 1/One (fixed point), which is exact for the     *)
(* translations of the code, rotations by multiples of 90 degrees and      *)
(* scale factors that are multiples of 1/One.  The projection matrix is    *)
(* kept as the sequence of perspective factors multiplied onto the         *)
(* identity (the empty sequence is the identity matrix), because its       *)
(* entries are irrational.                                                 *)
(***************************************************************************)
EXTENDS Integers, Sequences, FiniteSets, TLC

VARIABLES
  \* ---- MainView (mainview.h) ----
  phase,        \* "Uninitialized" | "Initialized" | "Rendering" | "Disposed"
  alive,        \* FALSE once the process has aborted
  rotX, rotY, rotZ,   \* int rotX, rotY, rotZ (degrees)
  scaling,      \* float scaling, in units of 1/One
  model,        \* QMatrix4x4 model (pyramid)
  knotModel,    \* QMatrix4x4 knotModel
  projection,   \* QMatrix4x4 projection
  buffer, array, knotVBO, knotVAO,   \* GLuint names, "unset" before glGen*
  modLoc, projLoc,                   \* GLint uniform locations, NoLocation
                                     \* before createShaderProgram
  shaderLinked, \* shaderProgram.link() has run
  glBuffers,    \* GL server side: buffer name -> number of vertices stored
  knotVertices, \* knotVertices.count() of initializeGL, NoCount before it
  drawn,        \* <<the last frame's draw calls>>, <<>> before the first
  viewport,     \* size given to the last resizeGL, <<>> before it
  \* ---- MainWindow (mainwindow.cpp) ----
  scaleSlider,  \* ui->ScaleSlider->value()
  \* ---- Model (model.h) ----
  loadStatus,   \* "start" | "reading" | "loaded" | "crashed" | "indeterminate"
  opened,       \* result of file.open: "pending" | "yes" | "no"
  lineNo,       \* lines consumed from the QTextStream
  coordsIndexed, indices, coords,    \* the three QVectors of Model
  srcPositions, \* the positions of the source's v lines, in order
  srcRefs,      \* the 1-based references of the source's f lines, flattened
  faceSizes,    \* the number of references of each f line, in order
  srcBlank      \* the source has a blank line

viewVars == <<phase, alive, rotX, rotY, rotZ, scaling, model, knotModel,
              projection, buffer, array, knotVBO, knotVAO, modLoc, projLoc,
              shaderLinked, glBuffers, knotVertices, drawn, viewport,
              scaleSlider>>
loadVars == <<loadStatus, opened, lineNo, coordsIndexed, indices, coords,
              srcPositions, srcRefs, faceSizes, srcBlank>>
vars == <<viewVars, loadVars>>

-----------------------------------------------------------------------------
(* QMatrix4x4, fixed point.                                                *)

\* The denominator of the fixed-point numbers: 1.0 is One.  It is also the
\* divisor of on_ScaleSlider_sliderMoved (value / 100.0f).
One == 100

Idx == 1..4

\* QMatrix4x4(): the identity.
Identity == << <<One, 0, 0, 0>>,
              <<0, One, 0, 0>>,
              <<0, 0, One, 0>>,
              <<0, 0, 0, One>> >>

\* operator*=: the matrix product, renormalised to the fixed point.
MatEntry(a, b, i, j) ==
  (a[i][1] * b[1][j] + a[i][2] * b[2][j]
     + a[i][3] * b[3][j] + a[i][4] * b[4][j]) \div One
MatRow(a, b, i) ==
  <<MatEntry(a, b, i, 1), MatEntry(a, b, i, 2),
    MatEntry(a, b, i, 3), MatEntry(a, b, i, 4)>>
MatMul(a, b) == <<MatRow(a, b, 1), MatRow(a, b, 2), MatRow(a, b, 3), MatRow(a, b, 4)>>

\* cos and sin of the angles the model uses, times One.  QMatrix4x4::rotate
\* computes exactly these values for 0, 90, 180 and 270 degrees.
Cos(deg) == CASE deg % 360 = 0   -> One
              [] deg % 360 = 90  -> 0
              [] deg % 360 = 180 -> -One
              [] deg % 360 = 270 -> 0
Sin(deg) == CASE deg % 360 = 0   -> 0
              [] deg % 360 = 90  -> One
              [] deg % 360 = 180 -> 0
              [] deg % 360 = 270 -> -One

\* setToIdentity() left out: the matrix is kept.
setToIdentity_Keep(m) == m

\* QMatrix4x4::setToIdentity()
setToIdentity(m) == Identity

\* QMatrix4x4::translate(x, y, z): m * T, coordinates in whole units.
translate(m, x, y, z) ==
  MatMul(m, << <<One, 0, 0, x * One>>,
               <<0, One, 0, y * One>>,
               <<0, 0, One, z * One>>,
               <<0, 0, 0, One>> >>)

\* QMatrix4x4::rotate(angle, x, y, z) for the three coordinate axes: m * R.
rotate(m, angle, x, y, z) ==
  LET c == Cos(angle)
      s == Sin(angle)
      r == CASE x = 1 -> << <<One, 0, 0, 0>>,
                            <<0, c, -s, 0>>,
                            <<0, s, c, 0>>,
                            <<0, 0, 0, One>> >>
             [] y = 1 -> << <<c, 0, s, 0>>,
                            <<0, One, 0, 0>>,
                            <<-s, 0, c, 0>>,
                            <<0, 0, 0, One>> >>
             [] z = 1 -> << <<c, -s, 0, 0>>,
                            <<s, c, 0, 0>>,
                            <<0, 0, One, 0>>,
                            <<0, 0, 0, One>> >>
  IN MatMul(m, r)

\* QMatrix4x4::scale(factor): m * S, factor in units of 1/One.
scale(m, factor) ==
  MatMul(m, << <<factor, 0, 0, 0>>,
               <<0, factor, 0, 0>>,
               <<0, 0, factor, 0>>,
               <<0, 0, 0, One>> >>)

-----------------------------------------------------------------------------
(* The projection matrix, as a product of perspective factors.             *)

RECURSIVE GCD(_, _)
GCD(a, b) == IF b = 0 THEN a ELSE GCD(b, a % b)

\* (float)newWidth / (float)newHeight: the quotient as a reduced fraction.
\* Equal fractions give the same float, whatever the two sizes are.
Ratio(w, h) == <<w \div GCD(w, h), h \div GCD(w, h)>>

\* QMatrix4x4::perspective(verticalAngle, aspectRatio, nearPlane, farPlane):
\* m * P, and no change when the volume is empty.  Planes are in tenths.
perspective(m, verticalAngle, aspectRatio, nearPlane, farPlane) ==
  IF nearPlane = farPlane \/ aspectRatio[1] = 0
    THEN m
    ELSE Append(m, [fov |-> verticalAngle, aspect |-> aspectRatio,
                    near |-> nearPlane, far |-> farPlane])

\* The identity, for the projection matrix, and setToIdentity() on it.
ProjIdentity == <<>>
projSetToIdentity_Keep(m) == m
projSetToIdentity(m) == ProjIdentity

FieldOfView == 60
NearPlane == 2
FarPlane == 200

-----------------------------------------------------------------------------
(* MainView                                                                *)

\* The fixed translations of the two instances (pyramid, knot).
PyramidOffset == <<-2, 0, -6>>
KnotOffset == <<2, 0, -6>>

\* Vertex pyramid[18]
PyramidLen == 18
\* fillArrayAndBuffer(buffer, array, 18, pyramid)
PyramidUpload == 18
\* fillArrayAndBuffer(knotVBO, knotVAO, 3840, knotArray)
KnotUpload == 3840
\* glDrawArrays(GL_TRIANGLES, 0, 18) and glDrawArrays(GL_TRIANGLES, 0, 3840)
PyramidDraw == 18
KnotDraw == 3840

\* The inputs of the view: the angles of the dials and the positions of the
\* scale slider.
Angles == {0, 90, 270}
Scales == {50, 100, 200}
\* on_ScaleSlider_sliderMoved: value / 100.0f
SliderDivisor == 100
\* on_ResetScaleButton_clicked: ScaleSlider->setValue(100).  The slider's
\* value in the form the window is built from is taken to be the same.
ResetValue == 100
\* on_ResetScaleButton_clicked: mainView->setScale(100)
ResetFactor == 100
Sizes == {<<800, 600>>, <<400, 300>>, <<600, 600>>}
\* Numbers of faces of the mesh that :/models/knot.obj may hold; 0 is also
\* what an unreadable file gives.
KnotFaceCounts == {0, 1, 1280}

\* Markers of a member or local not assigned yet.
NoLocation == -1
NoCount == -1

ViewInit ==
  /\ phase = "Uninitialized"
  /\ alive = TRUE
  /\ rotX = 0 /\ rotY = 0 /\ rotZ = 0
  /\ scaling = One
  /\ model = Identity
  /\ knotModel = Identity
  /\ projection = ProjIdentity
  /\ buffer = "unset" /\ array = "unset"
  /\ knotVBO = "unset" /\ knotVAO = "unset"
  /\ modLoc = NoLocation /\ projLoc = NoLocation
  /\ shaderLinked = FALSE
  /\ glBuffers = [b \in {} |-> 0]
  /\ knotVertices = NoCount
  /\ drawn = <<>>
  /\ viewport = <<>>
  /\ scaleSlider = ResetValue

\* createShaderProgram without shaderProgram.link(): no program, no uniforms.
createShaderProgram_NoLink ==
  /\ shaderLinked' = FALSE
  /\ modLoc' = NoLocation
  /\ projLoc' = NoLocation

\* MainView::createShaderProgram: the program is linked and the locations of
\* the two uniforms of vertshader.glsl are taken from it.
createShaderProgram ==
  /\ shaderLinked' = TRUE
  /\ modLoc' = 0
  /\ projLoc' = 1

\* MainView::initializeGL.  Qt calls it once, before the first resizeGL or
\* paintGL.  flatLen is knot.getMeshCoords().count().  glBufferData copies
\* KnotUpload vertices out of knotArray, which holds flatLen: with fewer the
\* copy reads past the array, and the process aborts or uploads whatever lies
\* behind it (overread).
initializeGL(flatLen, overread) ==
  /\ alive /\ phase = "Uninitialized"
  /\ IF flatLen < KnotUpload /\ overread = "abort"
       THEN /\ alive' = FALSE
            /\ UNCHANGED <<phase, rotX, rotY, rotZ, scaling, model, knotModel,
                           projection, buffer, array, knotVBO, knotVAO,
                           modLoc, projLoc, shaderLinked, glBuffers,
                           knotVertices, drawn, viewport, scaleSlider>>
       ELSE /\ knotVertices' = flatLen
            /\ buffer' = "vbo1" /\ knotVBO' = "vbo2"
            /\ array' = "vao1" /\ knotVAO' = "vao2"
            /\ createShaderProgram
            /\ glBuffers' = [b \in {"vbo1", "vbo2"} |->
                               IF b = "vbo1" THEN PyramidUpload ELSE KnotUpload]
            /\ model' = translate(model, PyramidOffset[1], PyramidOffset[2],
                                  PyramidOffset[3])
            /\ knotModel' = translate(knotModel, KnotOffset[1], KnotOffset[2],
                                      KnotOffset[3])
            /\ projection' = perspective(projection, FieldOfView, Ratio(4, 3),
                                         NearPlane, FarPlane)
            /\ phase' = "Initialized"
            /\ UNCHANGED <<alive, rotX, rotY, rotZ, scaling, drawn, viewport,
                           scaleSlider>>
  /\ UNCHANGED loadVars

\* MainView::paintGL.  Qt calls it only on an initialized, living widget.
paintGL ==
  /\ alive /\ phase \in {"Initialized", "Rendering"}
  /\ drawn' = <<[pyramid |-> PyramidDraw, knot |-> KnotDraw,
                 modelUniform |-> modLoc, projUniform |-> projLoc,
                 vaos |-> <<array, knotVAO>>]>>
  /\ phase' = "Rendering"
  /\ UNCHANGED <<alive, rotX, rotY, rotZ, scaling, model, knotModel,
                 projection, buffer, array, knotVBO, knotVAO, modLoc, projLoc,
                 shaderLinked, glBuffers, knotVertices, viewport,
                 scaleSlider>>
  /\ UNCHANGED loadVars

\* MainView::resizeGL.  Qt calls it with a non-empty size, on an initialized
\* widget.
resizeGL(newWidth, newHeight) ==
  /\ alive /\ phase \in {"Initialized", "Rendering"}
  /\ projection' = perspective(projSetToIdentity(projection), FieldOfView,
                               Ratio(newWidth, newHeight), NearPlane, FarPlane)
  /\ viewport' = <<newWidth, newHeight>>
  /\ UNCHANGED <<phase, alive, rotX, rotY, rotZ, scaling, model, knotModel,
                 buffer, array, knotVBO, knotVAO, modLoc, projLoc,
                 shaderLinked, glBuffers, knotVertices, drawn, scaleSlider>>
  /\ UNCHANGED loadVars

\* The body of MainView::rotateAndScale for one instance: the matrix m rebuilt
\* for the instance at offset off, from the angles and the factor given.
rotateAndScaleOne(m, off, rx, ry, rz, factor) ==
  LET m0 == setToIdentity(m)
      m1 == translate(m0, off[1], off[2], off[3])
      m2 == rotate(m1, rx, 1, 0, 0)
      m3 == rotate(m2, ry, 0, 1, 0)
      m4 == rotate(m3, rz, 0, 0, 1)
  IN scale(m4, factor)

\* MainView::rotateAndScale, with the values the setter has just stored.
rotateAndScale(rx, ry, rz, factor) ==
  /\ model' = rotateAndScaleOne(model, PyramidOffset, rx, ry, rz, factor)
  /\ knotModel' = rotateAndScaleOne(knotModel, KnotOffset, rx, ry, rz, factor)

\* MainView::setRotation.  The main window calls it from its dials, which
\* exist once the window is shown.
setRotation(rotateX, rotateY, rotateZ) ==
  /\ alive /\ phase \in {"Initialized", "Rendering"}
  /\ rotX' = rotateX /\ rotY' = rotateY /\ rotZ' = rotateZ
  /\ rotateAndScale(rotateX, rotateY, rotateZ, scaling)
  /\ UNCHANGED <<phase, alive, scaling, projection, buffer, array, knotVBO,
                 knotVAO, modLoc, projLoc, shaderLinked, glBuffers,
                 knotVertices, drawn, viewport, scaleSlider>>
  /\ UNCHANGED loadVars

\* MainView::setScale, called by the two handlers of the main window below;
\* the slider is theirs to set.
setScale(factor) ==
  /\ alive /\ phase \in {"Initialized", "Rendering"}
  /\ scaling' = factor
  /\ rotateAndScale(rotX, rotY, rotZ, factor)
  /\ UNCHANGED <<phase, alive, rotX, rotY, rotZ, projection, buffer, array,
                 knotVBO, knotVAO, modLoc, projLoc, shaderLinked, glBuffers,
                 knotVertices, drawn, viewport>>
  /\ UNCHANGED loadVars

\* MainWindow::on_ScaleSlider_sliderMoved: the user drags the scale slider to
\* value; the slider takes that value and the view is given value / 100.0f.
on_ScaleSlider_sliderMoved(value) ==
  /\ scaleSlider' = value
  /\ setScale((value * One) \div SliderDivisor)

\* MainWindow::on_ResetScaleButton_clicked: ScaleSlider->setValue(100), which
\* emits valueChanged and no sliderMoved, then mainView->setScale(100).
on_ResetScaleButton_clicked ==
  /\ scaleSlider' = ResetValue
  /\ setScale(ResetFactor * One)

\* MainView::~MainView, when the shown window closes.  The four glDelete*
\* calls come before makeCurrent(): they release the objects only if the
\* widget's context is current (current) when the destructor starts.
destroyMainView(current) ==
  /\ alive /\ phase \in {"Initialized", "Rendering"}
  /\ glBuffers' = IF current THEN [b \in {} |-> 0] ELSE glBuffers
  /\ phase' = "Disposed"
  /\ UNCHANGED <<alive, rotX, rotY, rotZ, scaling, model, knotModel,
                 projection, buffer, array, knotVBO, knotVAO, modLoc, projLoc,
                 shaderLinked, knotVertices, drawn, viewport, scaleSlider>>
  /\ UNCHANGED loadVars

NextView ==
  \/ \E f \in KnotFaceCounts, o \in {"abort", "garbage"} : initializeGL(3 * f, o)
  \/ paintGL
  \/ \E s \in Sizes : resizeGL(s[1], s[2])
  \/ \E x \in Angles, y \in Angles, z \in Angles : setRotation(x, y, z)
  \/ \E v \in Scales : on_ScaleSlider_sliderMoved(v)
  \/ on_ResetScaleButton_clicked
  \/ \E c \in BOOLEAN : destroyMainView(c)

-----------------------------------------------------------------------------
(* Model: the Wavefront loader                                             *)

\* Bounds of the mesh sources.
MaxLines == 3
MaxCorners == 6
MaxRef == 2

\* The positions a v line may give: exact float values, compared with ==.
Positions == {<<0, 0, 0>>, <<0, 0, 1>>}
\* The position references an f line may give; 0 is not a valid reference.
Refs == 0..MaxRef
\* The numbers of references an f line may hold.
FaceLens == {2, 3, 4}
FaceLines == UNION {[1..n -> Refs] : n \in FaceLens}

\* unsigned: 32 bits, as two 16-bit halves.
Half == 65536
toUInt(n) == [hi |-> (n \div Half) % Half, lo |-> n % Half]
\* u - 1 in unsigned arithmetic: 0 - 1 wraps to 0xFFFFFFFF.
USubOne(u) ==
  IF u.lo > 0 THEN [hi |-> u.hi, lo |-> u.lo - 1]
  ELSE IF u.hi > 0 THEN [hi |-> u.hi - 1, lo |-> Half - 1]
  ELSE [hi |-> Half - 1, lo |-> Half - 1]
\* The conversion of an unsigned to the int that QVector::operator[] takes.
ToInt(u) ==
  IF u.hi < Half \div 2 THEN u.hi * Half + u.lo
  ELSE (u.hi - Half) * Half + u.lo

\* What the three vectors hold once the constructor has read outside a
\* vector: nothing that can be relied on.  (A one-element sequence, to stay
\* comparable with the sequences the vectors are.)
Indeterminate == <<"indeterminate">>

LoadInit ==
  /\ loadStatus = "start"
  /\ opened = "pending"
  /\ lineNo = 0
  /\ coordsIndexed = <<>>
  /\ indices = <<>>
  /\ coords = <<>>
  /\ srcPositions = <<>>
  /\ srcRefs = <<>>
  /\ faceSizes = <<>>
  /\ srcBlank = FALSE

\* Model::parseVertex: the vertex list with the line's position appended.
parseVertex(cs, p) == Append(cs, p)

\* parseFace with its loop started at token 2: the first reference is lost.
parseFace_SkipFirst(ind, refs) ==
  ind \o [k \in 1..(Len(refs) - 1) |-> USubOne(toUInt(refs[k + 1]))]

\* Model::parseFace: the index list with the line's references appended, each
\* converted with toUInt() - 1.
parseFace(ind, refs) ==
  ind \o [k \in 1..Len(refs) |-> USubOne(toUInt(refs[k]))]

\* QVector::operator[] is defined for 0 <= i < size only.
InRange(cs, u) == ToInt(u) >= 0 /\ ToInt(u) < Len(cs)
AllInRange(cs, ind) == \A i \in 1..Len(ind) : InRange(cs, ind[i])

\* Model::unpackIndexes: coords, one position per index.
unpackIndexes(cs, ind) == [i \in 1..Len(ind) |-> cs[ToInt(ind[i]) + 1]]

\* indexOf counting from 1.
indexOf_OneBased(verts, v) ==
  CHOOSE k \in 1..Len(verts) :
    /\ verts[k] = v
    /\ \A j \in 1..(k - 1) : verts[j] # v

\* QVector::indexOf: the 0-based index of the first element equal to v.
indexOf(verts, v) ==
  (CHOOSE k \in 1..Len(verts) :
     /\ verts[k] = v
     /\ \A j \in 1..(k - 1) : verts[j] # v) - 1

\* QVector::contains
contains(verts, v) == \E k \in 1..Len(verts) : verts[k] = v

\* The loop of Model::alignData from corner i on, with the vectors verts and
\* ind built so far; currentIndex is Len(verts).
RECURSIVE alignLoop(_, _, _, _, _)
alignLoop(cs, old, i, verts, ind) ==
  IF i > Len(old) THEN [verts |-> verts, ind |-> ind]
  ELSE LET v == cs[ToInt(old[i]) + 1]
       IN IF contains(verts, v)
            THEN alignLoop(cs, old, i + 1, verts,
                           Append(ind, toUInt(indexOf(verts, v))))
            ELSE alignLoop(cs, old, i + 1, Append(verts, v),
                           Append(ind, toUInt(Len(verts))))

\* alignData without the lookup: every corner becomes a vertex of its own.
alignData_NoReuse(cs, old) ==
  [verts |-> [i \in 1..Len(old) |-> cs[ToInt(old[i]) + 1]],
   ind |-> [i \in 1..Len(old) |-> toUInt(i - 1)]]

\* Model::alignData: the new coordsIndexed (verts) and indices (ind).
alignData(cs, old) == alignLoop(cs, old, 1, <<>>, <<>>)

\* Model::Model, file.open(QIODevice::ReadOnly).  When it fails the
\* constructor returns at once, the three vectors empty.
openFile(ok) ==
  /\ loadStatus = "start"
  /\ opened' = IF ok THEN "yes" ELSE "no"
  /\ loadStatus' = IF ok THEN "reading" ELSE "loaded"
  /\ UNCHANGED <<lineNo, coordsIndexed, indices, coords, srcPositions,
                 srcRefs, faceSizes, srcBlank>>
  /\ UNCHANGED viewVars

\* One turn of the read loop on a line "v x y z".
readVertexLine(p) ==
  /\ loadStatus = "reading" /\ lineNo < MaxLines
  /\ lineNo' = lineNo + 1
  /\ coordsIndexed' = parseVertex(coordsIndexed, p)
  /\ srcPositions' = Append(srcPositions, p)
  /\ UNCHANGED <<loadStatus, opened, indices, coords, srcRefs, faceSizes,
                 srcBlank>>
  /\ UNCHANGED viewVars

\* One turn of the read loop on a line "f r1 r2 ...".
readFaceLine(refs) ==
  /\ loadStatus = "reading" /\ lineNo < MaxLines
  /\ Len(srcRefs) + Len(refs) <= MaxCorners
  /\ lineNo' = lineNo + 1
  /\ indices' = parseFace(indices, refs)
  /\ srcRefs' = srcRefs \o refs
  /\ faceSizes' = Append(faceSizes, Len(refs))
  /\ UNCHANGED <<loadStatus, opened, coordsIndexed, coords, srcPositions,
                 srcBlank>>
  /\ UNCHANGED viewVars

\* One turn of the read loop on a comment line, or on a line whose first
\* token is neither "v" nor "f": nothing is stored.
skipLine ==
  /\ loadStatus = "reading" /\ lineNo < MaxLines
  /\ lineNo' = lineNo + 1
  /\ UNCHANGED <<loadStatus, opened, coordsIndexed, indices, coords,
                 srcPositions, srcRefs, faceSizes, srcBlank>>
  /\ UNCHANGED viewVars

\* One turn of the read loop on an empty line or a line of spaces:
\* tokens is empty and tokens[0] reads outside it.  The process aborts, or
\* goes on with a state nothing can be said about (outcome).
readBlankLine(outcome) ==
  /\ loadStatus = "reading" /\ lineNo < MaxLines
  /\ lineNo' = lineNo + 1
  /\ loadStatus' = outcome
  /\ coordsIndexed' = Indeterminate
  /\ indices' = Indeterminate
  /\ coords' = Indeterminate
  /\ srcBlank' = TRUE
  /\ UNCHANGED <<opened, srcPositions, srcRefs, faceSizes>>
  /\ UNCHANGED viewVars

\* in.atEnd(): the rest of the constructor, unpackIndexes() then alignData().
\* An index outside coordsIndexed makes coordsIndexed[indices[i]] read outside
\* the vector, with the outcomes of readBlankLine.
endOfFile(outcome) ==
  /\ loadStatus = "reading"
  /\ IF AllInRange(coordsIndexed, indices)
       THEN LET aligned == alignData(coordsIndexed, indices)
            IN /\ coords' = unpackIndexes(coordsIndexed, indices)
               /\ coordsIndexed' = aligned.verts
               /\ indices' = aligned.ind
               /\ loadStatus' = "loaded"
       ELSE /\ loadStatus' = outcome
            /\ coordsIndexed' = Indeterminate
            /\ indices' = Indeterminate
            /\ coords' = Indeterminate
  /\ UNCHANGED <<opened, lineNo, srcPositions, srcRefs, faceSizes, srcBlank>>
  /\ UNCHANGED viewVars

\* Model::getNumTriangles
getNumTriangles == Len(coords) \div 3

UBOutcomes == {"crashed", "indeterminate"}

NextLoad ==
  \/ \E ok \in BOOLEAN : openFile(ok)
  \/ \E p \in Positions : readVertexLine(p)
  \/ \E refs \in FaceLines : readFaceLine(refs)
  \/ skipLine
  \/ \E o \in UBOutcomes : readBlankLine(o)
  \/ \E o \in UBOutcomes : endOfFile(o)

-----------------------------------------------------------------------------
Init == ViewInit /\ LoadInit

\* The view, driven by Qt and the main window.
Spec == Init /\ [][NextView]_vars

\* One construction of a Model.
SpecLoad == Init /\ [][NextLoad]_vars

-----------------------------------------------------------------------------
(* Properties of the view (Spec)                                           *)

Initialized == phase \in {"Initialized", "Rendering", "Disposed"}

\* The unit cosine and sine (-1, 0 or 1) of a multiple of 90 degrees.
UnitCos(deg) == Cos(deg) \div One
UnitSin(deg) == Sin(deg) \div One

\* The matrix T(off) * Rx(rx) * Ry(ry) * Rz(rz) * S(s) written out entry by
\* entry, in units of 1/One.
ExpectedModel(off, rx, ry, rz, s) ==
  LET cx == UnitCos(rx)  sx == UnitSin(rx)
      cy == UnitCos(ry)  sy == UnitSin(ry)
      cz == UnitCos(rz)  sz == UnitSin(rz)
  IN << <<s * cy * cz, -s * cy * sz, s * sy, off[1] * One>>,
        <<s * (cx * sz + sx * sy * cz), s * (cx * cz - sx * sy * sz),
          -s * sx * cy, off[2] * One>>,
        <<s * (sx * sz - cx * sy * cz), s * (sx * cz + cx * sy * sz),
          s * cx * cy, off[3] * One>>,
        <<0, 0, 0, One>> >>

\* C1: once the view is initialized, whatever setRotation and setScale calls
\* have been made, each instance's model matrix is identity * translate(its
\* offset) * rotX about X * rotY about Y * rotZ about Z * scale, of the
\* angles and the factor stored last; nothing of earlier calls remains.
C1_ModelMatrixFromLatest ==
  Initialized =>
    /\ model = ExpectedModel(PyramidOffset, rotX, rotY, rotZ, scaling)
    /\ knotModel = ExpectedModel(KnotOffset, rotX, rotY, rotZ, scaling)

\* A state after a rotation and a scale have both been set: the pyramid is
\* turned a quarter about X and doubled.
C1_Witness ==
  /\ phase = "Rendering"
  /\ rotX = 90 /\ rotY = 0 /\ rotZ = 270 /\ scaling = 200
  /\ model[1] = <<0, 200, 0, -200>>
  /\ knotModel[1][4] = 200

Rank(p) == CASE p = "Uninitialized" -> 0
             [] p = "Initialized" -> 1
             [] p = "Rendering" -> 2
             [] p = "Disposed" -> 3

BuffersBuilt ==
  /\ buffer \in DOMAIN glBuffers /\ knotVBO \in DOMAIN glBuffers
  /\ array # "unset" /\ knotVAO # "unset"

C9_CountsFollowMesh ==
  /\ phase \in {"Initialized", "Rendering"} =>
       /\ glBuffers[buffer] = PyramidLen
       /\ glBuffers[knotVBO] = knotVertices
  /\ drawn # <<>> =>
       /\ drawn[1].pyramid = PyramidLen
       /\ drawn[1].knot = knotVertices

\* The perspective projection of C10 for a viewport of w by h.
ExpectedProjection(w, h) ==
  <<[fov |-> 60, aspect |-> Ratio(w, h), near |-> 2, far |-> 200]>>

\* C10: resizeGL(w, h) leaves as projection the perspective matrix of field
\* of view 60, aspect w/h, near 0.2 and far 20.0 alone, whatever the
\* projection was, and changes neither the angles, the scale factor, the two
\* model matrices, the buffer handles and contents nor the uniform locations.
C10_Resize ==
  [][\A s \in Sizes :
       resizeGL(s[1], s[2]) =>
         /\ projection' = ExpectedProjection(s[1], s[2])
         /\ UNCHANGED <<rotX, rotY, rotZ, scaling, model, knotModel, buffer,
                        array, knotVBO, knotVAO, glBuffers, modLoc, projLoc>>]_vars

\* A square viewport set after a 4:3 one was in force, the objects turned
\* and scaled.
C10_Witness ==
  /\ viewport = <<600, 600>>
  /\ projection = <<[fov |-> 60, aspect |-> <<1, 1>>, near |-> 2, far |-> 200]>>
  /\ rotX = 90 /\ scaling = 50
  /\ model # Identity

\* C12: whatever scale-slider moves and reset-scale clicks have been made,
\* the view's scale factor is the slider's value divided by 100; after a
\* reset-scale click the slider is at 100 and the factor is 1.0.
C12_ScaleFollowsSlider ==
  scaling * SliderDivisor = scaleSlider * One

-----------------------------------------------------------------------------
(* Properties of the loader (SpecLoad)                                     *)

Loaded == loadStatus = "loaded"
Finished == loadStatus \notin {"start", "reading"}

\* The position the source gives corner i: that of its 1-based reference.
Resolved(i) == srcPositions[srcRefs[i]]

\* The first corner whose position is v.
FirstCorner(v) ==
  CHOOSE i \in 1..Len(srcRefs) :
    /\ Resolved(i) = v
    /\ \A j \in 1..(i - 1) : Resolved(j) # v

\* C2: after a mesh is loaded the unique vertex list has no two equal
\* positions, lists the positions in the order in which the faces first
\* reference them, and every index is the place in that list of the vertex
\* equal to its corner's position.
C2_Dedup ==
  Loaded =>
    /\ \A j, k \in 1..Len(coordsIndexed) :
         j # k => coordsIndexed[j] # coordsIndexed[k]
    /\ Len(indices) = Len(srcRefs)
    /\ \A i \in 1..Len(indices) :
         /\ ToInt(indices[i]) \in 0..(Len(coordsIndexed) - 1)
         /\ coordsIndexed[ToInt(indices[i]) + 1] = Resolved(i)
    /\ \A k \in 1..Len(coordsIndexed) :
         /\ \E i \in 1..Len(srcRefs) : Resolved(i) = coordsIndexed[k]
         /\ \A j \in 1..(k - 1) :
              FirstCorner(coordsIndexed[j]) < FirstCorner(coordsIndexed[k])

\* A quad over two distinct positions, the second position referenced
\* first: it becomes vertex 0, and later corners reuse both indices.
C2_Witness ==
  /\ Loaded
  /\ Len(srcPositions) = 2 /\ srcPositions[1] # srcPositions[2]
  /\ srcRefs = <<2, 1, 2, 1>>
  /\ coordsIndexed = <<srcPositions[2], srcPositions[1]>>
  /\ indices = <<toUInt(0), toUInt(1), toUInt(0), toUInt(1)>>

\* A valid mesh source: the file opens, every face line has three references
\* (and, the load having ended as Loaded, every reference is to a position of
\* the file and no line is blank).
ValidSource == opened = "yes" /\ \A k \in 1..Len(faceSizes) : faceSizes[k] = 3

\* C3: for a valid mesh source the index list is 3 * getNumTriangles() long
\* and getNumTriangles() is the number of face lines.
C3_Counts ==
  Loaded /\ ValidSource =>
    /\ Len(indices) = 3 * getNumTriangles
    /\ getNumTriangles = Len(faceSizes)

C3_Witness ==
  /\ Loaded /\ ValidSource
  /\ Len(faceSizes) = 2
  /\ getNumTriangles = 2
  /\ Len(indices) = 6

\* C4: after a mesh is loaded the flat array is the expansion of the
\* deduplicated data: as long as the index list, and entry i is the unique
\* vertex that index i names.
C4_FlatIsExpansion ==
  Loaded =>
    /\ Len(coords) = Len(indices)
    /\ \A i \in 1..Len(indices) :
         /\ ToInt(indices[i]) \in 0..(Len(coordsIndexed) - 1)
         /\ coords[i] = coordsIndexed[ToInt(indices[i]) + 1]

\* A triangle whose first and last corner share one of two unique vertices.
C4_Witness ==
  /\ Loaded
  /\ faceSizes = <<3>>
  /\ Len(coords) = 3
  /\ Len(coordsIndexed) = 2
  /\ coords[1] # coords[2] /\ coords[1] = coords[3]

\* A face reference that names no position of the source.
HasOutOfRangeRef ==
  \E i \in 1..Len(srcRefs) : srcRefs[i] \notin 1..Len(srcPositions)

NoMesh == coordsIndexed = <<>> /\ indices = <<>> /\ coords = <<>>

\* C5: loading a source with a face reference outside the position list
\* fails with MalformedInputError and produces no mesh.  (Stated for the
\* sources that have no other defect.)
C5_OutOfRangeRejected ==
  /\ Finished /\ opened = "yes" /\ ~srcBlank /\ HasOutOfRangeRef
  /\ \A k \in 1..Len(faceSizes) : faceSizes[k] = 3
  => loadStatus = "MalformedInputError" /\ NoMesh

\* C6: loading a source with a face line of other than three references
\* fails with MalformedInputError and exposes no mesh data.  (Stated for the
\* sources that have no other defect.)
C6_NonTriangleRejected ==
  /\ Finished /\ opened = "yes" /\ ~srcBlank /\ ~HasOutOfRangeRef
  /\ \E k \in 1..Len(faceSizes) : faceSizes[k] # 3
  => loadStatus = "MalformedInputError" /\ NoMesh

\* C7: constructing a mesh from an unreadable source fails with IOError; no
\* mesh, not even an empty one, results.
C7_UnreadableRejected ==
  opened = "no" => loadStatus = "IOError"

\* The lines read that stored nothing: comment lines and lines whose first
\* token is neither "v" nor "f".
SkippedLines ==
  lineNo - Len(srcPositions) - Len(faceSizes) - (IF srcBlank THEN 1 ELSE 0)

\* What the constructor builds from the v and f lines of the source alone,
\* in their order: the source with its blank and comment lines removed.
CleanLoad ==
  LET ind == parseFace(<<>>, srcRefs)
  IN [coords |-> unpackIndexes(srcPositions, ind),
      aligned |-> alignData(srcPositions, ind)]

\* C11: a blank line or a comment line anywhere in the source is skipped
\* without effect: the load raises no error and ends with the positions and
\* faces that the source without those lines gives.  (Stated for the sources
\* whose face references all name a position.)
C11_SkippedWithoutEffect ==
  /\ Finished /\ opened = "yes" /\ ~HasOutOfRangeRef
  /\ (srcBlank \/ SkippedLines > 0)
  => /\ Loaded
     /\ coords = CleanLoad.coords
     /\ coordsIndexed = CleanLoad.aligned.verts
     /\ indices = CleanLoad.aligned.ind

====
